---------------------------- MODULE Spec2Model ----------------------------
(***************************************************************************)
(* The interaction controller of the whiteboard canvas (WhiteboardCanvas,  *)
(* src/unnamed/part_002), its geometry helpers (src/src/lib/healper.ts)    *)
(* and the generation hook (src/src/lib/useAIDrawing.ts).                  *)
(*                                                                         *)
(* Every React state cell of the component is a variable.  A handler runs  *)
(* to completion against the state of the latest render, so each handler   *)
(* is one atomic action.  The only asynchronous operation, the generation  *)
(* request, is split at its await into handleAIDrawing (the part before    *)
(* the await) and the two continuations generateDrawingOk / ...Fail.       *)
(*                                                                         *)
(* Coordinates are stored DOUBLED (a canvas pixel p is the integer 2p), so  *)
(* that the centre (minX + maxX) / 2 of a bounding box of whole pixels is   *)
(* an exact integer.  Pointer positions and the coordinates returned by    *)
(* the generation service are whole pixels, i.e. even numbers.             *)
(*                                                                         *)
(* The canvas is written by the frame loop (animate) and by the canvas     *)
(* calls of draw, undoDrawing, placeAIInstructions, clearDrawing and       *)
(* generateDrawing, and no handler reads it: its only reader, toDataURL /  *)
(* getImageData, feeds the body of the generation request, whose answer    *)
(* is any response.  The state cells therefore evolve independently of    *)
(* the canvas.  Spec is the controller: its actions are the handlers and   *)
(* leave the canvas as it is.  PaintSpec is the canvas: its actions are    *)
(* the writers of the canvas, started with every action list, overlay and  *)
(* context of PaintInit and leaving the state cells as they are.           *)
(***************************************************************************)
EXTENDS Integers, Sequences, FiniteSets, TLC

VARIABLES
    mode,                   \* "draw" | "select"
    drawingEnabled,         \* freehand input enabled
    drawing,                \* a stroke is in progress
    pendingAIInstructions,  \* Null or Some(sequence of instructions)
    previewPosition,        \* Null or Some(point)
    previewVisible,
    drawingAction,          \* the action list
    currentPath,            \* the transient path of the stroke in progress
    selectionBox,           \* Null or Some([x, y, width, height])
    selectStart,            \* Null or Some(point)
    selectEnd,              \* Null or Some(point)
    isSelecting,
    loading,                \* useAIDrawing: a request is running
    error,                  \* useAIDrawing: Null or Some(message)
    inflight,               \* number of generation requests awaiting their response
    button,                 \* "up" | "down" (pressed on the canvas) |
                            \* "click" (released on the canvas, click event due)
    pointer,                \* Some(where the pointer is) from the mousedown to the
                            \* click, which happens there; Null while the button is up
    uuids,                  \* number of crypto.randomUUID() values drawn so far
    requests,               \* number of generation requests started so far
    lastOp,                 \* the handler branch that ran last
    lengthBefore,           \* the length the action list had when it started
    dragged,                \* it was the pointer-up of a selection drag whose
                            \* start and end differ
    returned,               \* the instructions of the pending preview as the
                            \* generation result delivered them, Null if none
    context                 \* contextRef.current: [surface, lineWidth], see the
                            \* renderer below

vars == <<mode, drawingEnabled, drawing, pendingAIInstructions, previewPosition,
          previewVisible, drawingAction, currentPath, selectionBox, selectStart,
          selectEnd, isSelecting, loading, error, inflight, pointer, button,
          uuids, requests, lastOp, lengthBefore, dragged, returned, context>>

---------------------------------------------------------------------------
(* Bounds of the model. *)

\* Largest pointer coordinate, in pixels.
MaxCoord == 1
\* Longest transient path a stroke may collect.
MaxPath == 2
\* Random UUIDs drawn plus generation requests started in one run: two strokes,
\* or a stroke and a request, or two requests.
MaxWork == 2

---------------------------------------------------------------------------
(* Optional values: null, or a value. *)

Null == <<>>
Some(v) == <<v>>
IsNull(o) == o = <<>>
Val(o) == o[1]

Min(a, b) == IF a <= b THEN a ELSE b
Max(a, b) == IF a >= b THEN a ELSE b
Abs(a) == IF a >= 0 THEN a ELSE 0 - a

Point(px, py) == [x |-> px, y |-> py]

\* getMousePos: the position of a mouse event, in (doubled) canvas pixels.  The
\* pointer is moved along the diagonal of the canvas.
Positions == {Point(2 * i, 2 * i) : i \in 0..MaxCoord}


---------------------------------------------------------------------------
(* Geometry utilities (healper.ts). *)

\* Infinity, as healper.ts:52 uses it: larger than every coordinate of the model.
Infinity == 1000

\* const safe = (n) => n ?? 0, applied to field f of record r.
safe(r, f) == IF f \in DOMAIN r THEN r[f] ELSE 0

\* One min/max step of getBoundingBox (healper.ts:60-63).
FoldPoint(box, px, py) ==
    [minX |-> Min(box.minX, px), minY |-> Min(box.minY, py),
     maxX |-> Max(box.maxX, px), maxY |-> Max(box.maxY, py)]

RECURSIVE FoldPoints(_, _, _)
\* The loop over inst.points (healper.ts:81-88), from index i on.
FoldPoints(box, pts, i) ==
    IF i > Len(pts) THEN box
    ELSE FoldPoints(FoldPoint(box, pts[i].x, pts[i].y), pts, i + 1)

\* The body of getBoundingBox's loop for one instruction (healper.ts:57-89):
\* only (x,y), (x1,y1), (x2,y2) and points are folded in; width, height and
\* radius are not read.
FoldInstruction(box, inst) ==
    LET b1 == IF "x" \in DOMAIN inst /\ "y" \in DOMAIN inst
              THEN FoldPoint(box, inst.x, inst.y) ELSE box
        b2 == IF "x1" \in DOMAIN inst /\ "y1" \in DOMAIN inst
              THEN FoldPoint(b1, inst.x1, inst.y1) ELSE b1
        b3 == IF "x2" \in DOMAIN inst /\ "y2" \in DOMAIN inst
              THEN FoldPoint(b2, inst.x2, inst.y2) ELSE b2
    IN  IF "points" \in DOMAIN inst THEN FoldPoints(b3, inst.points, 1) ELSE b3

RECURSIVE FoldInstructions(_, _, _)
FoldInstructions(box, insts, i) ==
    IF i > Len(insts) THEN box
    ELSE FoldInstructions(FoldInstruction(box, insts[i]), insts, i + 1)

getBoundingBox(instructions) ==
    FoldInstructions([minX |-> Infinity, minY |-> Infinity,
                      maxX |-> 0 - Infinity, maxY |-> 0 - Infinity],
                     instructions, 1)

getFreehandBoundingBox(path) ==
    IF Len(path) = 0 THEN [minX |-> 0, minY |-> 0, maxX |-> 0, maxY |-> 0]
    ELSE FoldPoints([minX |-> path[1].x, minY |-> path[1].y,
                     maxX |-> path[1].x, maxY |-> path[1].y], path, 1)

isPointInBox(px, py, box) ==
    px >= box.minX /\ px <= box.maxX /\ py >= box.minY /\ py <= box.maxY

\* The box both selections compute for an item of the action list
\* (part_002:351-354 and 398-405).
ItemBox(item) ==
    IF item.type = "freehand" THEN getFreehandBoundingBox(item.path)
    ELSE getBoundingBox(<<item>>)

---------------------------------------------------------------------------
(* What the generation service may return. *)

\* Instructions of the schema (part_000:4-23), coordinates in doubled pixels.
\* The id "" is the empty string, which placement treats as a missing id.
RectInstruction ==
    [type |-> "rect", id |-> "a", x |-> 0, y |-> 0, width |-> 2, height |-> 2]
LineInstruction ==
    [type |-> "line", id |-> "b", x1 |-> 0, y1 |-> 0, x2 |-> 2, y2 |-> 2,
     selected |-> TRUE]
PolygonInstruction ==
    [type |-> "polygon", id |-> "",
     points |-> <<Point(0, 0), Point(4, 0), Point(0, 2)>>]
EraseInstruction ==
    [type |-> "erase", id |-> "c"]

\* data.instructions of the responses that pass generateDrawing's checks
\* (useAIDrawing.ts:73), which accept any array: the empty one, one
\* instruction, an instruction without coordinates, two instructions.
Responses ==
    {<<>>, <<RectInstruction>>, <<EraseInstruction>>,
     <<LineInstruction, PolygonInstruction>>}

\* The messages generateDrawing stores on a failure: a status that is not OK
\* (useAIDrawing.ts:68) and a body without an instructions array
\* (useAIDrawing.ts:74); a rejected fetch differs in its message only.
Failures ==
    {"Request failed with status", "No valid instructions were returned."}

\* crypto.randomUUID(): the n-th value drawn; no two draws are equal.
randomUUID(n) == "uuid-" \o ToString(n)

\* currentStyle (part_002:61-64).
currentStyle == [color |-> "black", lineWidth |-> 3]

---------------------------------------------------------------------------
(* The initial render (part_002:35-82, useAIDrawing.ts:7-8). *)

Init ==
    /\ mode = "draw"
    /\ drawingEnabled = TRUE
    /\ drawing = FALSE
    /\ pendingAIInstructions = Null
    /\ previewPosition = Null
    /\ previewVisible = TRUE
    /\ drawingAction = <<>>
    /\ currentPath = <<>>
    /\ selectionBox = Null
    /\ selectStart = Null
    /\ selectEnd = Null
    /\ isSelecting = FALSE
    /\ loading = FALSE
    /\ error = Null
    /\ inflight = 0
    /\ pointer = Null
    /\ button = "up"
    /\ uuids = 0
    /\ requests = 0
    /\ lastOp = "init"
    /\ lengthBefore = 0
    /\ dragged = FALSE
    /\ returned = Null
    /\ context = [surface |-> <<>>, lineWidth |-> 1]

\* The record of the handler branch that runs in this step.
Note(op, moved) ==
    /\ lastOp' = op
    /\ lengthBefore' = Len(drawingAction)
    /\ dragged' = moved
    /\ returned' = IF op \in {"placeAIInstructions", "undoDrawing", "clearDrawing"}
                   THEN Null
                   ELSE IF op = "generateDrawingOk" THEN pendingAIInstructions'
                   ELSE returned

Ran(op) == Note(op, FALSE)

AIVars == <<pendingAIInstructions, previewPosition, previewVisible>>
SelectVars == <<selectionBox, selectStart, selectEnd, isSelecting>>
HookVars == <<loading, error, inflight, requests>>

---------------------------------------------------------------------------
(* Freehand drawing. *)

\* startDrawing (part_002:284-292) at position pos.
startDrawing(pos) ==
    IF ~drawingEnabled
    THEN /\ Ran("handleMouseDown")
         /\ UNCHANGED <<drawing, currentPath>>
    ELSE /\ drawing' = TRUE
         /\ currentPath' = <<pos>>
         /\ Ran("startDrawing")

\* draw (part_002:297-313) at position pos.
draw(pos) ==
    IF ~drawing
    THEN /\ Ran("handleMouseMove")
         /\ UNCHANGED currentPath
    ELSE /\ Len(currentPath) < MaxPath
         /\ currentPath' = Append(currentPath, pos)
         /\ Ran("draw")

\* An entry committed without a selected flag.
FreehandActionUnflagged(id, path) ==
    [id |-> id, type |-> "freehand", path |-> path, style |-> currentStyle]

\* The entry endDrawing commits (part_002:325-331).
FreehandAction(id, path) ==
    [id |-> id, type |-> "freehand", path |-> path, style |-> currentStyle,
     selected |-> FALSE]

\* An endDrawing that commits the transient path even when it is empty.
endDrawingAlways ==
    /\ drawing' = FALSE
    /\ uuids + requests < MaxWork
    /\ uuids' = uuids + 1
    /\ drawingAction' =
           Append(drawingAction, FreehandAction(randomUUID(uuids + 1), currentPath))
    /\ Ran("endDrawing")
    /\ currentPath' = <<>>

\* endDrawing (part_002:318-335).
endDrawing ==
    /\ drawing' = FALSE
    /\ IF Len(currentPath) > 0
       THEN /\ uuids + requests < MaxWork
            /\ uuids' = uuids + 1
            /\ drawingAction' =
                   Append(drawingAction, FreehandAction(randomUUID(uuids + 1), currentPath))
            /\ Ran("endDrawing")
       ELSE /\ UNCHANGED <<drawingAction, uuids>>
            /\ Ran("handleMouseUp")
    /\ currentPath' = <<>>

---------------------------------------------------------------------------
(* Selection. *)

\* A copy that sets the flag and loses the id of the item.
SetSelectedLosingId(item, v) ==
    [f \in DOMAIN item \cup {"selected"} |->
        IF f = "selected" THEN v ELSE IF f = "id" THEN "" ELSE item[f]]

\* { ...item, selected: v } (part_002:362-365, 417-418, 423).
SetSelected(item, v) ==
    [f \in DOMAIN item \cup {"selected"} |-> IF f = "selected" THEN v ELSE item[f]]

\* A selection that tests intersection with the rectangle, not containment.
SelectOverlapping(list, start, end) ==
    LET minX == Min(start.x, end.x)
        maxX == Max(start.x, end.x)
        minY == Min(start.y, end.y)
        maxY == Max(start.y, end.y)
    IN  [i \in 1..Len(list) |->
            LET box == ItemBox(list[i])
                overlaps == /\ box.minX <= maxX
                            /\ box.maxX >= minX
                            /\ box.minY <= maxY
                            /\ box.maxY >= minY
            IN  SetSelected(list[i], overlaps)]

\* The map of applySelectionBox (part_002:349-367).
SelectInside(list, start, end) ==
    LET minX == Min(start.x, end.x)
        maxX == Max(start.x, end.x)
        minY == Min(start.y, end.y)
        maxY == Max(start.y, end.y)
    IN  [i \in 1..Len(list) |->
            LET box == ItemBox(list[i])
                isInside == /\ box.minX >= minX
                            /\ box.maxX <= maxX
                            /\ box.minY >= minY
                            /\ box.maxY <= maxY
            IN  SetSelected(list[i], isInside)]

\* applySelectionBox (part_002:340-368).
applySelectionBox(start, end) ==
    drawingAction' = SelectInside(drawingAction, start, end)

RECURSIVE FindTopmost(_, _, _)
\* The backward loop of singleClickSelection (part_002:395-411), from index i
\* down: the id of the first item whose box contains pos, or Null.
FindTopmost(list, pos, i) ==
    IF i < 1 THEN Null
    ELSE IF isPointInBox(pos.x, pos.y, ItemBox(list[i])) THEN Some(list[i].id)
    ELSE FindTopmost(list, pos, i - 1)

\* The map run when an id was found (part_002:414-420).
SelectById(list, foundId) ==
    [i \in 1..Len(list) |-> SetSelected(list[i], list[i].id = foundId)]

\* The map run when none was found (part_002:422-424).
DeselectAll(list) ==
    [i \in 1..Len(list) |-> SetSelected(list[i], FALSE)]

\* singleClickSelection (part_002:389-426) at position pos; an empty id is
\* falsy, like null.
singleClickSelection(pos) ==
    LET found == FindTopmost(drawingAction, pos, Len(drawingAction))
    IN  drawingAction' =
            IF ~IsNull(found) /\ Val(found) # ""
            THEN SelectById(drawingAction, Val(found))
            ELSE DeselectAll(drawingAction)

---------------------------------------------------------------------------
(* Placement of the pending preview. *)

\* Whether placement draws a fresh id for inst (part_002:456).
NeedsId(inst) == "id" \notin DOMAIN inst \/ inst.id = ""

\* A map body that keeps the selected flag the service sent.
ShiftInstructionKeepFlag(inst, offsetX, offsetY, uuid) ==
    [f \in DOMAIN inst \cup {"id", "selected"} |->
        CASE f \in {"x", "x1", "x2"} -> inst[f] + offsetX
          [] f \in {"y", "y1", "y2"} -> inst[f] + offsetY
          [] f = "points" ->
                [k \in 1..Len(inst.points) |->
                    Point(inst.points[k].x + offsetX, inst.points[k].y + offsetY)]
          [] f = "id" -> IF "id" \notin DOMAIN inst \/ inst.id = "" THEN uuid ELSE inst.id
          [] f = "selected" -> "selected" \in DOMAIN inst /\ inst.selected
          [] OTHER -> inst[f]]

\* The body of the map of placeAIInstructions (part_002:441-459) for one
\* instruction; uuid is the value randomUUID() returns if it is called.
ShiftInstruction(inst, offsetX, offsetY, uuid) ==
    [f \in DOMAIN inst \cup {"id", "selected"} |->
        CASE f \in {"x", "x1", "x2"} -> inst[f] + offsetX
          [] f \in {"y", "y1", "y2"} -> inst[f] + offsetY
          [] f = "points" ->
                [k \in 1..Len(inst.points) |->
                    Point(inst.points[k].x + offsetX, inst.points[k].y + offsetY)]
          [] f = "id" -> IF NeedsId(inst) THEN uuid ELSE inst.id
          [] f = "selected" -> FALSE
          [] OTHER -> inst[f]]

\* How many of the first i instructions draw a fresh id.
FreshBefore(insts, i) == Cardinality({k \in 1..i : NeedsId(insts[k])})

\* An offset taken from the top-left corner of the box instead of its centre.
CornerOffset(box, pos) ==
    IF box.minX = Infinity THEN Point(0, 0)
    ELSE Point(pos.x - box.minX, pos.y - box.minY)

\* The offset (part_002:435-439) that moves the centre of box to pos.  The
\* centre of the box of an array without coordinates is not a number; such an
\* array has no coordinate the offset could be added to, and 0 stands for it.
CenterOffset(box, pos) ==
    IF box.minX = Infinity THEN Point(0, 0)
    ELSE Point(pos.x - (box.minX + box.maxX) \div 2,
               pos.y - (box.minY + box.maxY) \div 2)

\* A placement that commits the first instruction of the batch only.
ShiftFirstOnly(insts, pos, drawn) ==
    LET offset == CenterOffset(getBoundingBox(insts), pos)
    IN  [i \in 1..Min(1, Len(insts)) |->
            ShiftInstruction(insts[i], offset.x, offset.y,
                             randomUUID(drawn + FreshBefore(insts, i)))]

\* shifted (part_002:435-459): the pending instructions moved to pos; drawn is
\* the number of UUIDs drawn before.
ShiftAll(insts, pos, drawn) ==
    LET offset == CenterOffset(getBoundingBox(insts), pos)
    IN  [i \in 1..Len(insts) |->
            ShiftInstruction(insts[i], offset.x, offset.y,
                             randomUUID(drawn + FreshBefore(insts, i)))]

\* placeAIInstructions (part_002:431-480) at position pos.
placeAIInstructions(pos) ==
    LET insts == Val(pendingAIInstructions)
        fresh == FreshBefore(insts, Len(insts))
    IN  /\ uuids + fresh + requests <= MaxWork
        /\ drawingAction' = drawingAction \o ShiftAll(insts, pos, uuids)
        /\ uuids' = uuids + fresh
        /\ pendingAIInstructions' = Null
        /\ previewPosition' = Null
        /\ previewVisible' = FALSE
        /\ drawingEnabled' = TRUE

---------------------------------------------------------------------------
(* The renderer (healper.ts:106-235, part_002:102-197).  A 2D context is    *)
(* the record [surface, lineWidth]: surface is the sequence of the painting *)
(* calls made since the canvas was last cleared, in paint order, each with  *)
(* the attributes it was painted with; lineWidth is the context's line      *)
(* width, the one attribute that a painting routine of the program reads    *)
(* without a preceding assignment that is certain to take effect.  Every    *)
(* other attribute is assigned before it is used, or changed between save() *)
(* and restore() only.                                                      *)

\* A painting call (fill, stroke, fillRect, strokeRect, fillText).
Paint(ctx, mark) == [ctx EXCEPT !.surface = Append(@, mark)]

\* ctx.lineWidth = w.  The canvas ignores a value that is not a positive
\* number and keeps the width it had.
SetLineWidth(ctx, w) == IF w > 0 THEN [ctx EXCEPT !.lineWidth = w] ELSE ctx

\* ctx.clearRect(0, 0, ctx.canvas.width, ctx.canvas.height).
clearRect(ctx) == [ctx EXCEPT !.surface = <<>>]

\* item[f] || d, for a string field f.
OrElse(item, f, d) == IF f \in DOMAIN item /\ item[f] # "" THEN item[f] ELSE d

\* ctx.strokeRect between save() and restore(), with the dash, stroke style
\* and line width set in between; w is 0 where the code sets no width and the
\* context's own is used.  The canvas ignores the call when an argument is
\* not finite, which is the case of the box of no coordinates.
StrokeRect(ctx, box, dash, style, w) ==
    IF box.minX = Infinity THEN ctx
    ELSE Paint(ctx, [op |-> "strokeRect", x |-> box.minX, y |-> box.minY,
                     width |-> box.maxX - box.minX, height |-> box.maxY - box.minY,
                     dash |-> dash, strokeStyle |-> style,
                     lineWidth |-> IF w > 0 THEN w ELSE ctx.lineWidth])

\* The polygon case of drawFromJSON (healper.ts:144-162).
DrawPolygon(ctx, item) ==
    IF "points" \in DOMAIN item /\ Len(item.points) >= 2
    THEN LET filled ==
                 IF OrElse(item, "fill", "") # ""
                 THEN Paint(ctx, [op |-> "fill", points |-> item.points,
                                  fillStyle |-> item.fill])
                 ELSE ctx
             width == SetLineWidth(filled, safe(item, "lineWidth"))
         IN  IF OrElse(item, "stroke", "") # ""
             THEN Paint(width, [op |-> "stroke", points |-> item.points,
                                closed |-> TRUE, strokeStyle |-> item.stroke,
                                lineWidth |-> width.lineWidth])
             ELSE filled
    ELSE ctx

\* One turn of the loop of drawFromJSON (healper.ts:110-167).
DrawItem(ctx, item) ==
    CASE item.type = "rect" ->
             Paint(ctx, [op |-> "fillRect", x |-> safe(item, "x"), y |-> safe(item, "y"),
                         width |-> safe(item, "width"), height |-> safe(item, "height"),
                         fillStyle |-> OrElse(item, "fill", "black")])
      [] item.type = "circle" ->
             Paint(ctx, [op |-> "arc", x |-> safe(item, "x"), y |-> safe(item, "y"),
                         radius |-> safe(item, "radius"),
                         fillStyle |-> OrElse(item, "fill", "black")])
      [] item.type = "line" ->
             LET width == SetLineWidth(ctx, safe(item, "lineWidth"))
             IN  Paint(width, [op |-> "stroke",
                               points |-> <<Point(safe(item, "x1"), safe(item, "y1")),
                                            Point(safe(item, "x2"), safe(item, "y2"))>>,
                               closed |-> FALSE,
                               strokeStyle |-> OrElse(item, "stroke", "black"),
                               lineWidth |-> width.lineWidth])
      [] item.type = "text" ->
             Paint(ctx, [op |-> "fillText", text |-> OrElse(item, "text", ""),
                         x |-> safe(item, "x"), y |-> safe(item, "y"),
                         fillStyle |-> OrElse(item, "fill", "black"),
                         font |-> OrElse(item, "font", "16px sans-serif")])
      [] item.type = "polygon" -> DrawPolygon(ctx, item)
      [] OTHER -> ctx

RECURSIVE DrawItems(_, _, _)
DrawItems(ctx, instructions, i) ==
    IF i > Len(instructions) THEN ctx
    ELSE DrawItems(DrawItem(ctx, instructions[i]), instructions, i + 1)

\* drawFromJSON (healper.ts:106-169).
drawFromJSON(ctx, instructions) == DrawItems(ctx, instructions, 1)

\* One turn of the loop of reDrawPreviousData (healper.ts:198-234): the shape,
\* then the dashed box of a selected action.
RedrawAction(ctx, action) ==
    LET shape ==
            IF action.type = "freehand"
            THEN LET width == SetLineWidth(ctx, action.style.lineWidth)
                 IN  Paint(width, [op |-> "stroke",
                                   points |-> IF Len(action.path) = 0
                                              THEN <<Point(0, 0)>> ELSE action.path,
                                   closed |-> FALSE,
                                   strokeStyle |-> action.style.color,
                                   lineWidth |-> width.lineWidth])
            ELSE drawFromJSON(ctx, <<action>>)
    IN  IF "selected" \in DOMAIN action /\ action.selected
        THEN StrokeRect(shape, ItemBox(action), <<5, 3>>, "black", 1)
        ELSE shape

RECURSIVE RedrawActions(_, _, _)
RedrawActions(ctx, list, i) ==
    IF i > Len(list) THEN ctx
    ELSE RedrawActions(RedrawAction(ctx, list[i]), list, i + 1)

\* reDrawPreviousData (healper.ts:191-235).
reDrawPreviousData(ctx, list) == RedrawActions(clearRect(ctx), list, 1)

\* The body of the map of animate (part_002:116-137): inst moved by the offset,
\* nothing else of it changed.
ShiftPreview(inst, offsetX, offsetY) ==
    [f \in DOMAIN inst |->
        CASE f \in {"x", "x1", "x2"} -> inst[f] + offsetX
          [] f \in {"y", "y1", "y2"} -> inst[f] + offsetY
          [] f = "points" ->
                [k \in 1..Len(inst.points) |->
                    Point(inst.points[k].x + offsetX, inst.points[k].y + offsetY)]
          [] OTHER -> inst[f]]

\* The preview of animate (part_002:109-154): the pending instructions moved to
\* pos, and the dashed box around them while the preview is visible.
DrawPreview(ctx, insts, pos, visible) ==
    LET box == getBoundingBox(insts)
        offset == CenterOffset(box, pos)
        shifted == [i \in 1..Len(insts) |-> ShiftPreview(insts[i], offset.x, offset.y)]
        drawn == drawFromJSON(ctx, shifted)
        boxWidth == box.maxX - box.minX
        boxHeight == box.maxY - box.minY
        frame == [minX |-> IF box.minX = Infinity THEN Infinity
                           ELSE pos.x - boxWidth \div 2,
                  minY |-> pos.y - boxHeight \div 2,
                  maxX |-> pos.x - boxWidth \div 2 + boxWidth,
                  maxY |-> pos.y - boxHeight \div 2 + boxHeight]
    IN  IF visible
        THEN StrokeRect(drawn, frame, <<5, 5>>, "rgba(0,0,0,0.5)", 0)
        ELSE drawn

RECURSIVE Highlight(_, _, _)
\* The highlight of the selected items (part_002:171-190), from index i on.
Highlight(ctx, list, i) ==
    IF i > Len(list) THEN ctx
    ELSE Highlight(IF "selected" \in DOMAIN list[i] /\ list[i].selected
                   THEN StrokeRect(ctx, ItemBox(list[i]), <<4, 2>>,
                                   "rgba(255, 0, 0, 0.8)", 2)
                   ELSE ctx,
                   list, i + 1)

\* The frame animate paints (part_002:102-197) on context ctx for the state
\* (list, position, pending, visible, box) of the render it belongs to.
Frame(ctx, list, position, pending, visible, box) ==
    LET redrawn == reDrawPreviousData(clearRect(ctx), list)
        preview == IF ~IsNull(position) /\ ~IsNull(pending)
                   THEN DrawPreview(redrawn, Val(pending), Val(position), visible)
                   ELSE redrawn
        boxed == IF ~IsNull(box)
                 THEN Paint(preview, [op |-> "strokeRect",
                                      x |-> Val(box).x, y |-> Val(box).y,
                                      width |-> Val(box).width,
                                      height |-> Val(box).height,
                                      dash |-> <<6, 4>>, strokeStyle |-> "blue",
                                      lineWidth |-> 1])
                 ELSE preview
    IN  Highlight(boxed, list, 1)

\* One turn of the loop of the drawFromJSON of the hook
\* (useAIDrawing.ts:95-118); a missing line width is replaced by 1 here.
HookDrawItem(ctx, item) ==
    CASE item.type = "rect" ->
             Paint(ctx, [op |-> "fillRect", x |-> safe(item, "x"), y |-> safe(item, "y"),
                         width |-> safe(item, "width"), height |-> safe(item, "height"),
                         fillStyle |-> OrElse(item, "fill", "black")])
      [] item.type = "circle" ->
             Paint(ctx, [op |-> "arc", x |-> safe(item, "x"), y |-> safe(item, "y"),
                         radius |-> safe(item, "radius"),
                         fillStyle |-> OrElse(item, "fill", "black")])
      [] item.type = "line" ->
             LET width == SetLineWidth(ctx, Max(safe(item, "lineWidth"), 1))
             IN  Paint(width, [op |-> "stroke",
                               points |-> <<Point(safe(item, "x1"), safe(item, "y1")),
                                            Point(safe(item, "x2"), safe(item, "y2"))>>,
                               closed |-> FALSE,
                               strokeStyle |-> OrElse(item, "stroke", "black"),
                               lineWidth |-> width.lineWidth])
      [] OTHER -> ctx

RECURSIVE HookDrawItems(_, _, _)
\* The drawFromJSON of the hook (useAIDrawing.ts:91-119), from index i on.
HookDrawItems(ctx, instructions, i) ==
    IF i > Len(instructions) THEN ctx
    ELSE HookDrawItems(HookDrawItem(ctx, instructions[i]), instructions, i + 1)

---------------------------------------------------------------------------
(* The canvas's mouse events.  The browser delivers mousedown, mousemove*,  *)
(* mouseup and then click, the click at once after the mouseup and only if *)
(* the button went down on the canvas too.                                 *)

\* A pointer-down that starts a stroke in either mode.
handleMouseDownAnyMode(pos) ==
    /\ button = "up"
    /\ button' = "down"
    /\ pointer' = Some(pos)
    /\ IF ~IsNull(pendingAIInstructions)
       THEN /\ Ran("handleMouseDown")
            /\ UNCHANGED <<drawing, currentPath>>
       ELSE startDrawing(pos)
    /\ UNCHANGED <<mode, drawingEnabled, AIVars, drawingAction, SelectVars,
                   HookVars, uuids>>
    /\ UNCHANGED context

\* handleMouseDown (part_002:215-230) at position pos.
handleMouseDown(pos) ==
    /\ button = "up"
    /\ button' = "down"
    /\ pointer' = Some(pos)
    /\ IF ~IsNull(pendingAIInstructions)
       THEN /\ Ran("handleMouseDown")
            /\ UNCHANGED <<drawing, currentPath, selectStart, selectEnd, isSelecting>>
       ELSE IF mode = "draw"
       THEN /\ startDrawing(pos)
            /\ UNCHANGED <<selectStart, selectEnd, isSelecting>>
       ELSE /\ selectStart' = Some(pos)
            /\ selectEnd' = Some(pos)
            /\ isSelecting' = TRUE
            /\ Ran("startSelecting")
            /\ UNCHANGED <<drawing, currentPath>>
    /\ UNCHANGED <<mode, drawingEnabled, AIVars, drawingAction, selectionBox,
                   HookVars, uuids>>
    /\ UNCHANGED context

\* A pointer-move that stores the moved preview as the pending instructions.
handleMouseMoveCompounding(pos) ==
    /\ button # "click"
    /\ pointer' = IF button = "down" THEN Some(pos) ELSE Null
    /\ IF ~IsNull(pendingAIInstructions)
       THEN /\ previewPosition' = Some(pos)
            /\ pendingAIInstructions' =
                   LET insts == Val(pendingAIInstructions)
                       offset == CenterOffset(getBoundingBox(insts), pos)
                   IN  Some([i \in 1..Len(insts) |->
                                ShiftPreview(insts[i], offset.x, offset.y)])
            /\ drawing' = FALSE
            /\ Ran("movePreview")
            /\ UNCHANGED <<currentPath, selectEnd, selectionBox>>
       ELSE IF mode = "select" /\ isSelecting /\ ~IsNull(selectStart)
       THEN /\ selectEnd' = Some(pos)
            /\ selectionBox' =
                   Some([x |-> Min(Val(selectStart).x, pos.x),
                         y |-> Min(Val(selectStart).y, pos.y),
                         width |-> Abs(Val(selectStart).x - pos.x),
                         height |-> Abs(Val(selectStart).y - pos.y)])
            /\ Ran("moveSelecting")
            /\ UNCHANGED <<pendingAIInstructions, previewPosition, drawing, currentPath>>
       ELSE IF mode = "draw"
       THEN /\ draw(pos)
            /\ UNCHANGED <<pendingAIInstructions, previewPosition, drawing,
                           selectEnd, selectionBox>>
       ELSE /\ Ran("handleMouseMove")
            /\ UNCHANGED <<pendingAIInstructions, previewPosition, drawing,
                           currentPath, selectEnd, selectionBox>>
    /\ UNCHANGED <<mode, drawingEnabled, previewVisible,
                   drawingAction, selectStart, isSelecting, HookVars, button, uuids>>
    /\ UNCHANGED context

\* handleMouseMove (part_002:235-263) to position pos.
handleMouseMove(pos) ==
    /\ button # "click"
    /\ pointer' = IF button = "down" THEN Some(pos) ELSE Null
    /\ IF ~IsNull(pendingAIInstructions)
       THEN /\ previewPosition' = Some(pos)
            /\ drawing' = FALSE
            /\ Ran("movePreview")
            /\ UNCHANGED <<currentPath, selectEnd, selectionBox>>
       ELSE IF mode = "select" /\ isSelecting /\ ~IsNull(selectStart)
       THEN /\ selectEnd' = Some(pos)
            /\ selectionBox' =
                   Some([x |-> Min(Val(selectStart).x, pos.x),
                         y |-> Min(Val(selectStart).y, pos.y),
                         width |-> Abs(Val(selectStart).x - pos.x),
                         height |-> Abs(Val(selectStart).y - pos.y)])
            /\ Ran("moveSelecting")
            /\ UNCHANGED <<previewPosition, drawing, currentPath>>
       ELSE IF mode = "draw"
       THEN /\ draw(pos)
            /\ UNCHANGED <<previewPosition, drawing, selectEnd, selectionBox>>
       ELSE /\ Ran("handleMouseMove")
            /\ UNCHANGED <<previewPosition, drawing, currentPath, selectEnd, selectionBox>>
    /\ UNCHANGED <<mode, drawingEnabled, pendingAIInstructions, previewVisible,
                   drawingAction, selectStart, isSelecting, HookVars, button, uuids>>
    /\ UNCHANGED context

\* handleMouseUp (part_002:268-279).  With the button up, this is the release
\* on the canvas of a button that was pressed outside it: the handler runs as
\* well, and no click follows.
handleMouseUp ==
    /\ button \in {"up", "down"}
    /\ button' = IF button = "down" THEN "click" ELSE "up"
    /\ IF mode = "select" /\ isSelecting /\ ~IsNull(selectStart) /\ ~IsNull(selectEnd)
       THEN /\ applySelectionBox(Val(selectStart), Val(selectEnd))
            /\ selectStart' = Null
            /\ selectEnd' = Null
            /\ isSelecting' = FALSE
            /\ Note("applySelectionBox", Val(selectStart) # Val(selectEnd))
            /\ UNCHANGED <<drawing, currentPath, uuids>>
       ELSE IF mode = "draw"
       THEN /\ endDrawing
            /\ UNCHANGED <<selectStart, selectEnd, isSelecting>>
       ELSE /\ Ran("handleMouseUp")
            /\ UNCHANGED <<drawing, currentPath, uuids, drawingAction,
                           selectStart, selectEnd, isSelecting>>
    /\ UNCHANGED <<mode, drawingEnabled, AIVars, selectionBox, HookVars, pointer>>
    /\ UNCHANGED context

\* handleCanvasClick (part_002:373-384), at the pointer position.
handleCanvasClick ==
    /\ button = "click"
    /\ button' = "up"
    /\ pointer' = Null
    /\ IF ~IsNull(pendingAIInstructions)
       THEN /\ placeAIInstructions(Val(pointer))
            /\ Ran("placeAIInstructions")
       ELSE IF mode = "select"
       THEN /\ singleClickSelection(Val(pointer))
            /\ Ran("singleClickSelection")
            /\ UNCHANGED <<AIVars, drawingEnabled, uuids>>
       ELSE /\ Ran("handleCanvasClick")
            /\ UNCHANGED <<AIVars, drawingEnabled, uuids, drawingAction>>
    /\ UNCHANGED <<mode, drawing, currentPath, SelectVars, HookVars>>
    /\ UNCHANGED context

\* The button is released outside the canvas: no mouseup and no click reach it.
releaseOutside ==
    /\ button = "down"
    /\ button' = "up"
    /\ pointer' = Null
    /\ Ran("releaseOutside")
    /\ UNCHANGED <<mode, drawingEnabled, drawing, AIVars, drawingAction, currentPath,
                   SelectVars, HookVars, uuids>>
    /\ UNCHANGED context

---------------------------------------------------------------------------
(* The buttons and the switch below the canvas. *)

\* A switch that also discards the pending preview.
toggleModeDiscarding ==
    /\ button # "click"
    /\ mode' = IF mode = "draw" THEN "select" ELSE "draw"
    /\ selectionBox' = Null
    /\ pendingAIInstructions' = Null
    /\ Ran("toggleMode")
    /\ UNCHANGED <<drawingEnabled, drawing, previewPosition, previewVisible,
                   drawingAction, currentPath, selectStart, selectEnd, isSelecting,
                   HookVars, pointer, button, uuids>>
    /\ UNCHANGED context

\* The Switch's onCheckedChange (part_002:666-670).
toggleMode ==
    /\ button # "click"
    /\ mode' = IF mode = "draw" THEN "select" ELSE "draw"
    /\ selectionBox' = Null
    /\ Ran("toggleMode")
    /\ UNCHANGED <<drawingEnabled, drawing, AIVars, drawingAction, currentPath,
                   selectStart, selectEnd, isSelecting, HookVars, pointer, button, uuids>>
    /\ UNCHANGED context

\* A pop that takes the oldest entry instead of the newest (shift for pop).
PopOldest(list) == IF Len(list) = 0 THEN list ELSE SubSeq(list, 2, Len(list))

\* newActions.pop() (part_002:532-533).
Pop(list) == IF Len(list) = 0 THEN list ELSE SubSeq(list, 1, Len(list) - 1)

\* undoDrawing (part_002:531-546).
undoDrawing ==
    /\ button # "click"
    /\ drawingAction' = Pop(drawingAction)
    /\ pendingAIInstructions' = Null
    /\ previewPosition' = Null
    /\ previewVisible' = FALSE
    /\ Ran("undoDrawing")
    /\ UNCHANGED <<mode, drawingEnabled, drawing, currentPath, SelectVars, HookVars,
                   pointer, button, uuids>>
    /\ UNCHANGED context

\* A filter predicate with the test of the flag inverted.
KeepSelected(item) == "selected" \in DOMAIN item /\ item.selected

\* The filter predicate of handleDeleteSelected (part_002:553).
KeepOnDelete(item) == "selected" \in DOMAIN item /\ ~item.selected

\* prev.filter(...) (part_002:552-554).
Filter(list) == SelectSeq(list, KeepOnDelete)

\* handleDeleteSelected (part_002:551-555).
handleDeleteSelected ==
    /\ button # "click"
    /\ drawingAction' = Filter(drawingAction)
    /\ Ran("handleDeleteSelected")
    /\ UNCHANGED <<mode, drawingEnabled, drawing, AIVars, currentPath, SelectVars,
                   HookVars, pointer, button, uuids>>
    /\ UNCHANGED context

\* A clearDrawing that forgets the transient path and the enabled flag.
clearDrawingListOnly ==
    /\ button # "click"
    /\ drawingAction' = <<>>
    /\ pendingAIInstructions' = Null
    /\ previewPosition' = Null
    /\ previewVisible' = FALSE
    /\ Ran("clearDrawing")
    /\ UNCHANGED <<mode, drawing, drawingEnabled, currentPath, SelectVars, HookVars,
                   pointer, button, uuids>>
    /\ UNCHANGED context

\* clearDrawing (part_002:560-572).
clearDrawing ==
    /\ button # "click"
    /\ drawingAction' = <<>>
    /\ currentPath' = <<>>
    /\ pendingAIInstructions' = Null
    /\ previewPosition' = Null
    /\ previewVisible' = FALSE
    /\ drawingEnabled' = TRUE
    /\ Ran("clearDrawing")
    /\ UNCHANGED <<mode, drawing, SelectVars, HookVars, pointer, button, uuids>>
    /\ UNCHANGED context

---------------------------------------------------------------------------
(* The generation request. *)

\* A trigger that does not look at the loading flag.
handleAIDrawingUnguarded ==
    /\ button # "click"
    /\ uuids + requests < MaxWork
    /\ requests' = requests + 1
    /\ loading' = TRUE
    /\ error' = Null
    /\ inflight' = inflight + 1
    /\ Ran("handleAIDrawing")
    /\ UNCHANGED <<mode, drawingEnabled, drawing, AIVars, drawingAction, currentPath,
                   SelectVars, pointer, button, uuids>>
    /\ UNCHANGED context

\* handleAIDrawing up to its await (part_002:485-502) and generateDrawing up to
\* its fetch (useAIDrawing.ts:44-65); the AI Draw button is disabled while
\* loading (part_002:636-642).
handleAIDrawing ==
    /\ button # "click"
    /\ ~loading
    /\ uuids + requests < MaxWork
    /\ requests' = requests + 1
    /\ loading' = TRUE
    /\ error' = Null
    /\ inflight' = inflight + 1
    /\ Ran("handleAIDrawing")
    /\ UNCHANGED <<mode, drawingEnabled, drawing, AIVars, drawingAction, currentPath,
                   SelectVars, pointer, button, uuids>>
    /\ UNCHANGED context

\* The response arrives with an instructions array: generateDrawing returns it
\* (useAIDrawing.ts:71-88) and handleAIDrawing resumes (part_002:506-513).
generateDrawingOk(instructions) ==
    /\ button # "click"
    /\ inflight > 0
    /\ inflight' = inflight - 1
    /\ loading' = FALSE
    /\ pendingAIInstructions' = Some(instructions)
    /\ previewVisible' = TRUE
    /\ drawingEnabled' = FALSE
    /\ Ran("generateDrawingOk")
    /\ UNCHANGED <<mode, drawing, previewPosition, drawingAction, currentPath,
                   SelectVars, error, requests, pointer, button, uuids>>
    /\ UNCHANGED context

\* A failure that stores no message.
generateDrawingFailSilent(message) ==
    /\ button # "click"
    /\ inflight > 0
    /\ inflight' = inflight - 1
    /\ loading' = FALSE
    /\ drawingEnabled' = FALSE
    /\ Ran("generateDrawingFail")
    /\ UNCHANGED <<mode, drawing, AIVars, drawingAction, currentPath,
                   SelectVars, error, requests, pointer, button, uuids>>
    /\ UNCHANGED context

\* The request fails: generateDrawing stores the message and returns null
\* (useAIDrawing.ts:67-69, 73-75, 82-88) and handleAIDrawing resumes
\* (part_002:506-513).
generateDrawingFail(message) ==
    /\ button # "click"
    /\ inflight > 0
    /\ inflight' = inflight - 1
    /\ loading' = FALSE
    /\ error' = Some(message)
    /\ drawingEnabled' = FALSE
    /\ Ran("generateDrawingFail")
    /\ UNCHANGED <<mode, drawing, AIVars, drawingAction, currentPath,
                   SelectVars, requests, pointer, button, uuids>>
    /\ UNCHANGED context

---------------------------------------------------------------------------

Next ==
    \/ \E pos \in Positions : handleMouseDown(pos)
    \/ \E pos \in Positions : handleMouseMove(pos)
    \/ handleMouseUp
    \/ handleCanvasClick
    \/ releaseOutside
    \/ toggleMode
    \/ undoDrawing
    \/ handleDeleteSelected
    \/ clearDrawing
    \/ handleAIDrawing
    \/ \E instructions \in Responses : generateDrawingOk(instructions)
    \/ \E message \in Failures : generateDrawingFail(message)

Spec == Init /\ [][Next]_vars

---------------------------------------------------------------------------
(* The canvas and its writers. *)

\* Longest action list painted.
MaxList == 2
\* Most painting calls on the surface for a handler to add one more; a frame
\* clears the surface first and may paint more.
MaxMarks == 2

\* An EraseAction of the type of the entries (types.ts:13-18), whose
\* rectangle covers every coordinate of the entries below.
EraseAction ==
    [type |-> "erase", id |-> "e",
     clearRect |-> [x |-> 0, y |-> 0, width |-> 8, height |-> 8],
     style |-> currentStyle]

\* Entries the action list holds: a committed stroke (part_002:325-331), the
\* instructions of the responses as placement commits them at (1,1)
\* (part_002:441-459), and an erase action of the type DrawingAction
\* (types.ts:20), with either value of the selected flag the two selections
\* set (part_002:362-365, 414-424).
PaintEntries ==
    LET stroke == FreehandAction(randomUUID(1), <<Point(0, 0), Point(2, 2)>>)
        placed == {ShiftInstruction(inst, 2, 2, randomUUID(2)) :
                      inst \in {RectInstruction, LineInstruction,
                                PolygonInstruction, EraseInstruction}}
    IN  {SetSelected(entry, v) :
            entry \in {stroke, EraseAction} \cup placed, v \in BOOLEAN}

PaintLists == UNION {[1..n -> PaintEntries] : n \in 0..MaxList}

\* Contexts a writer may find: the default line width of a canvas or the
\* width of a stroke, and a clear surface or the stale frame of a stroke.
PaintContexts ==
    LET clear == [surface |-> <<>>, lineWidth |-> 1]
        stale == reDrawPreviousData(clear,
                     <<FreehandAction(randomUUID(1), <<Point(2, 2), Point(0, 0)>>)>>)
    IN  {[surface |-> s, lineWidth |-> w] :
            s \in {clear.surface, stale.surface},
            w \in {clear.lineWidth, currentStyle.lineWidth}}

\* The state cells are those of the initial render, but for what a frame
\* paints: the action list, the pending preview with its position, and the
\* selection box.
PaintInit ==
    /\ mode = "draw"
    /\ drawingEnabled = TRUE
    /\ drawing = FALSE
    /\ \E pending \in {Null, Some(<<LineInstruction, PolygonInstruction>>)} :
          /\ pendingAIInstructions = pending
          /\ previewPosition = IF IsNull(pending) THEN Null ELSE Some(Point(2, 2))
    /\ previewVisible = TRUE
    /\ drawingAction \in PaintLists
    /\ currentPath = <<>>
    /\ selectionBox \in {Null, Some([x |-> 0, y |-> 0, width |-> 2, height |-> 2])}
    /\ selectStart = Null
    /\ selectEnd = Null
    /\ isSelecting = FALSE
    /\ loading = FALSE
    /\ error = Null
    /\ inflight = 0
    /\ pointer = Null
    /\ button = "up"
    /\ uuids = 0
    /\ requests = 0
    /\ lastOp = "init"
    /\ lengthBefore = 0
    /\ dragged = FALSE
    /\ returned = pendingAIInstructions
    /\ context \in PaintContexts

\* What a writer of the canvas leaves alone.
StateCells ==
    <<mode, drawingEnabled, drawing, AIVars, drawingAction, currentPath,
      SelectVars, HookVars, pointer, button, uuids>>

\* A frame of the loop: animate (part_002:102-197, 202-210).
animate ==
    /\ context' = Frame(context, drawingAction, previewPosition,
                        pendingAIInstructions, previewVisible, selectionBox)
    /\ Ran("animate")
    /\ UNCHANGED StateCells

\* A paint of the action list by a handler: the clearRect and the
\* reDrawPreviousData of undoDrawing (part_002:537-541) and of
\* placeAIInstructions (part_002:463-471), on the list they store.
redraw ==
    /\ context' = reDrawPreviousData(clearRect(context), drawingAction)
    /\ Ran("redraw")
    /\ UNCHANGED StateCells

\* The segment draw strokes from the last point of the path to the pointer
\* (part_002:304-312).
strokeSegment(prev, pos) ==
    /\ Len(context.surface) < MaxMarks
    /\ context' =
           LET width == SetLineWidth(context, currentStyle.lineWidth)
           IN  Paint(width, [op |-> "stroke", points |-> <<prev, pos>>,
                             closed |-> FALSE, strokeStyle |-> currentStyle.color,
                             lineWidth |-> width.lineWidth])
    /\ Ran("strokeSegment")
    /\ UNCHANGED StateCells

\* The clearRect of clearDrawing (part_002:568-571).
clearCanvas ==
    /\ context' = clearRect(context)
    /\ Ran("clearCanvas")
    /\ UNCHANGED StateCells

\* generateDrawing paints the instructions of a response at once when the
\* request was made with a selection box (useAIDrawing.ts:77-79).
hookDrawFromJSON(instructions) ==
    /\ Len(context.surface) + Len(instructions) <= MaxMarks
    /\ context' = HookDrawItems(context, instructions, 1)
    /\ Ran("hookDrawFromJSON")
    /\ UNCHANGED StateCells

PaintNext ==
    \/ animate
    \/ redraw
    \/ \E prev, pos \in Positions : strokeSegment(prev, pos)
    \/ clearCanvas
    \/ \E instructions \in Responses : hookDrawFromJSON(instructions)

PaintSpec == PaintInit /\ [][PaintNext]_vars


---------------------------------------------------------------------------
(* Vocabulary of the properties. *)

\* The coordinates an entry or instruction carries: the points of a freehand
\* path, and (x,y), (x1,y1), (x2,y2) and the polygon points of an instruction.
CoordPoints(item) ==
    (IF "path" \in DOMAIN item
     THEN {item.path[k] : k \in 1..Len(item.path)} ELSE {})
    \cup (IF "x" \in DOMAIN item /\ "y" \in DOMAIN item
          THEN {Point(item.x, item.y)} ELSE {})
    \cup (IF "x1" \in DOMAIN item /\ "y1" \in DOMAIN item
          THEN {Point(item.x1, item.y1)} ELSE {})
    \cup (IF "x2" \in DOMAIN item /\ "y2" \in DOMAIN item
          THEN {Point(item.x2, item.y2)} ELSE {})
    \cup (IF "points" \in DOMAIN item
          THEN {item.points[k] : k \in 1..Len(item.points)} ELSE {})

BatchPoints(items) == UNION {CoordPoints(items[i]) : i \in 1..Len(items)}

SetMin(S) == CHOOSE m \in S : \A n \in S : m <= n
SetMax(S) == CHOOSE m \in S : \A n \in S : m >= n

\* Point pt lies in the rectangle spanned by corners a and b, bounds included.
InRect(pt, a, b) ==
    /\ Min(a.x, b.x) <= pt.x /\ pt.x <= Max(a.x, b.x)
    /\ Min(a.y, b.y) <= pt.y /\ pt.y <= Max(a.y, b.y)

SelectedIndices(list) == {i \in 1..Len(list) : list[i].selected}

\* The entries of list whose selected flag is not set, in order.
RECURSIVE Unselected(_)
Unselected(list) ==
    IF Len(list) = 0 THEN <<>>
    ELSE IF Head(list).selected THEN Unselected(Tail(list))
    ELSE <<Head(list)>> \o Unselected(Tail(list))

\* The selected flags of list, in order.
Flags(list) == [i \in 1..Len(list) |-> list[i].selected]

---------------------------------------------------------------------------
(* Properties. *)

\* C1: Undo on a list of N >= 1 entries leaves exactly its first N-1 entries,
\* unchanged and in order; Undo on the empty list leaves it empty.
C1_UndoRemovesLast ==
    [][lastOp' = "undoDrawing" =>
        /\ Len(drawingAction) >= 1 =>
              /\ Len(drawingAction') = Len(drawingAction) - 1
              /\ \A i \in 1..Len(drawingAction') : drawingAction'[i] = drawingAction[i]
        /\ Len(drawingAction) = 0 => drawingAction' = <<>>]_vars

\* C1 witness: an Undo has run on a list of two entries and left one.
C1_Witness ==
    lastOp = "undoDrawing" /\ lengthBefore = 2 /\ Len(drawingAction) = 1

\* C2 as stated: every commit, of a stroke or of a placed batch, grows the
\* action list by exactly one entry.
C2_EveryCommitAddsOne ==
    [][lastOp' \in {"endDrawing", "placeAIInstructions"} =>
        Len(drawingAction') = Len(drawingAction) + 1]_vars

\* C2 amended: a completed stroke appends exactly one entry; a placed batch of
\* k instructions appends exactly k entries, one per instruction; the entries
\* already in the list stay as they are.
C2_CommitAddsOnePerInstruction ==
    [][/\ lastOp' = "endDrawing" =>
              /\ Len(drawingAction') = Len(drawingAction) + 1
              /\ SubSeq(drawingAction', 1, Len(drawingAction)) = drawingAction
       /\ lastOp' = "placeAIInstructions" =>
              /\ Len(drawingAction') =
                     Len(drawingAction) + Len(Val(pendingAIInstructions))
              /\ SubSeq(drawingAction', 1, Len(drawingAction)) = drawingAction]_vars

\* C2 witness: a batch of two instructions was placed and made two entries.
C2_Witness ==
    /\ lastOp = "placeAIInstructions"
    /\ lengthBefore = 0
    /\ Len(drawingAction) = 2
    /\ drawingAction[1].type = "line"
    /\ drawingAction[2].type = "polygon"

\* C3: the ids of the entries of the action list are pairwise distinct.
C3_IdsDistinct ==
    \A i, j \in 1..Len(drawingAction) :
        drawingAction[i].id = drawingAction[j].id => i = j

\* C4: after a single-click selection at most one entry is selected: the
\* last-inserted of the entries whose box contains the click point, and none
\* if no box contains it.
C4_SingleClickSelectsTopmostOnly ==
    [][lastOp' = "singleClickSelection" =>
        LET pos == Val(pointer)
            hits == {i \in 1..Len(drawingAction) :
                        isPointInBox(pos.x, pos.y, ItemBox(drawingAction[i]))}
        IN  /\ Cardinality(SelectedIndices(drawingAction')) <= 1
            /\ SelectedIndices(drawingAction') =
                   IF hits = {} THEN {} ELSE {SetMax(hits)}]_vars

\* C5: the pointer-up that ends a drag selection from start to end leaves an
\* entry selected if and only if its bounding box, the box of the coordinates
\* it carries, lies within the rectangle spanned by start and end; an entry
\* with a coordinate inside and a coordinate outside is not selected.
C5_DragSelectsContained ==
    [][lastOp' = "applySelectionBox" =>
        /\ Len(drawingAction') = Len(drawingAction)
        /\ \A i \in 1..Len(drawingAction) :
              drawingAction'[i].selected <=>
                  \A pt \in CoordPoints(drawingAction[i]) :
                      InRect(pt, Val(selectStart), Val(selectEnd))]_vars

\* C5 witness: a drag selection has run over two entries, selected the one
\* inside the rectangle and left the other, which reaches out of it.
C5_Witness ==
    /\ lastOp = "applySelectionBox"
    /\ Len(drawingAction) = 2
    /\ Cardinality(SelectedIndices(drawingAction)) = 1

\* C6: the click event that follows the pointer-up of a selection drag (the
\* pointer moved between press and release) leaves the selected flag of every
\* entry as the drag selection set it.
C6_ClickAfterDragKeepsSelection ==
    [][(lastOp = "applySelectionBox" /\ dragged /\ button = "click") =>
        /\ Len(drawingAction') >= Len(drawingAction)
        /\ Flags(SubSeq(drawingAction', 1, Len(drawingAction))) = Flags(drawingAction)]_vars

\* C7: placing a pending batch whose bounding box is not degenerate at point p
\* moves every coordinate of every instruction by the same offset p - c, c
\* the centre of the batch's bounding box, and the centre of the bounding box
\* of the committed batch is p.  (Stated with twice the centre, to stay in
\* the integers.)
C7_PlacementCentresBatch ==
    [][(lastOp' = "placeAIInstructions"
            /\ BatchPoints(Val(pendingAIInstructions)) # {}) =>
        LET insts == Val(pendingAIInstructions)
            p == Val(pointer)
            n == Len(drawingAction)
            old == BatchPoints(insts)
            oldXs == {pt.x : pt \in old}
            oldYs == {pt.y : pt \in old}
            twiceDx == 2 * p.x - (SetMin(oldXs) + SetMax(oldXs))
            twiceDy == 2 * p.y - (SetMin(oldYs) + SetMax(oldYs))
            placed == SubSeq(drawingAction', n + 1, n + Len(insts))
            new == BatchPoints(placed)
            newXs == {pt.x : pt \in new}
            newYs == {pt.y : pt \in new}
            MovedX(a, b) == 2 * (b - a) = twiceDx
            MovedY(a, b) == 2 * (b - a) = twiceDy
        IN  /\ Len(drawingAction') = n + Len(insts)
            /\ \A i \in 1..Len(insts) :
                  LET a == insts[i]
                      b == placed[i]
                  IN  /\ "x" \in DOMAIN a => MovedX(a.x, b.x)
                      /\ "y" \in DOMAIN a => MovedY(a.y, b.y)
                      /\ "x1" \in DOMAIN a => MovedX(a.x1, b.x1)
                      /\ "y1" \in DOMAIN a => MovedY(a.y1, b.y1)
                      /\ "x2" \in DOMAIN a => MovedX(a.x2, b.x2)
                      /\ "y2" \in DOMAIN a => MovedY(a.y2, b.y2)
                      /\ "points" \in DOMAIN a =>
                            /\ Len(b.points) = Len(a.points)
                            /\ \A k \in 1..Len(a.points) :
                                  /\ MovedX(a.points[k].x, b.points[k].x)
                                  /\ MovedY(a.points[k].y, b.points[k].y)
            /\ SetMin(newXs) + SetMax(newXs) = 2 * p.x
            /\ SetMin(newYs) + SetMax(newYs) = 2 * p.y]_vars

\* C7 witness: the batch of a line and a polygon, whose box is four pixels by
\* two, has been placed.
C7_Witness ==
    /\ lastOp = "placeAIInstructions"
    /\ lengthBefore = 0
    /\ Len(drawingAction) = 2
    /\ drawingAction[1].type = "line"
    /\ "points" \in DOMAIN drawingAction[2]

\* C8: batches placed by separate generate+place cycles do not interfere: a
\* placement leaves the entries already in the list unchanged, a single click
\* selects no entry but the one it hits, and a delete-selected that follows
\* the click removes no entry but that one.
C8_BatchesIndependent ==
    [][/\ lastOp' = "placeAIInstructions" =>
              SubSeq(drawingAction', 1, Len(drawingAction)) = drawingAction
       /\ lastOp' = "singleClickSelection" =>
              \A i \in SelectedIndices(drawingAction') :
                  /\ isPointInBox(Val(pointer).x, Val(pointer).y, ItemBox(drawingAction[i]))
                  /\ \A j \in SelectedIndices(drawingAction') : j = i
       /\ (lastOp = "singleClickSelection" /\ lastOp' = "handleDeleteSelected") =>
              Len(drawingAction') >= Len(drawingAction) - 1]_vars

\* C9: delete-selected removes exactly the selected entries and keeps every
\* other entry, unchanged and in its original order; when the only entry is
\* selected the list becomes empty.
C9_DeleteRemovesSelected ==
    [][lastOp' = "handleDeleteSelected" =>
        /\ drawingAction' = Unselected(drawingAction)
        /\ (Len(drawingAction) = 1 /\ drawingAction[1].selected) => drawingAction' = <<>>]_vars

\* C9 witness: a delete-selected has run on a list of two entries, removed the
\* first and kept the second.
C9_Witness ==
    /\ lastOp = "handleDeleteSelected"
    /\ lengthBefore = 2
    /\ Len(drawingAction) = 1
    /\ drawingAction[1].id = randomUUID(2)

\* C10: Clear leaves the action list empty, no pending preview, the transient
\* path empty and freehand drawing enabled, whatever state it runs in.
C10_ClearResets ==
    lastOp = "clearDrawing" =>
        /\ drawingAction = <<>>
        /\ pendingAIInstructions = Null
        /\ previewPosition = Null
        /\ currentPath = <<>>
        /\ drawingEnabled

\* C10 witness: Clear has run with a stroke in progress and a request in flight.
C10_Witness == lastOp = "clearDrawing" /\ drawing /\ inflight > 0

\* C11: immediately after Clear there is no selection box and no selection
\* drag in progress: the drag's start and end are cleared.
C11_ClearDiscardsSelection ==
    lastOp = "clearDrawing" =>
        /\ selectionBox = Null
        /\ selectStart = Null
        /\ selectEnd = Null
        /\ ~isSelecting

\* C12: a generation request that fails stores an error message, creates no
\* pending preview and leaves the action list as it is.
C12_FailureReportsError ==
    [][lastOp' = "generateDrawingFail" =>
        /\ ~IsNull(error')
        /\ Val(error') # ""
        /\ pendingAIInstructions' = pendingAIInstructions
        /\ drawingAction' = drawingAction]_vars

\* C12 witness: a request has failed with a stroke in the action list and no
\* preview pending.
C12_Witness ==
    /\ lastOp = "generateDrawingFail"
    /\ ~IsNull(error)
    /\ IsNull(pendingAIInstructions)
    /\ Len(drawingAction) = 1

\* C13: the failure of a generation request leaves every state cell of the
\* controller (action list, pending preview, freehand-enabled flag, mode,
\* selection state) as it was, so that freehand drawing stays possible.
C13_FailureRestoresState ==
    [][lastOp' = "generateDrawingFail" =>
        /\ drawingAction' = drawingAction
        /\ UNCHANGED AIVars
        /\ drawingEnabled' = drawingEnabled
        /\ mode' = mode
        /\ UNCHANGED SelectVars]_vars

\* C14: a response whose instructions array is empty does not make the
\* controller enter ai-preview-pending: the pending preview is never the
\* empty array.
C14_EmptyResponseIsNoPreview ==
    pendingAIInstructions # Some(<<>>)

\* C15: the bounding box of a single rect instruction is (x, y, x + width,
\* y + height): the dashed box reDrawPreviousData strokes around a selected
\* rect, which is its getBoundingBox, starts at (x, y) and is width by height.
C15_RectBoxCoversExtent ==
    lastOp = "redraw" =>
        \A i \in 1..Len(drawingAction) :
            (drawingAction[i].type = "rect" /\ drawingAction[i].selected) =>
                \E k \in 1..Len(context.surface) :
                    LET mark == context.surface[k]
                        rect == drawingAction[i]
                    IN  /\ mark.op = "strokeRect"
                        /\ mark.x = rect.x
                        /\ mark.y = rect.y
                        /\ mark.width = rect.width
                        /\ mark.height = rect.height

\* C16: painting the action list twice yields the surface that painting it
\* once yields: a reDrawPreviousData that follows a reDrawPreviousData of the
\* same list leaves the surface as it is.
C16_PaintTwiceSameSurface ==
    [][(lastOp = "redraw" /\ lastOp' = "redraw") =>
        context'.surface = context.surface]_vars

\* An entry without its selected flag.
Frozen(item) == [f \in DOMAIN item \ {"selected"} |-> item[f]]

FrozenList(list) == [i \in 1..Len(list) |-> Frozen(list[i])]

\* C17: an entry of the action list keeps its id, type, geometry and style
\* for as long as it stays in the list; the selections change selected flags
\* only, a commit appends, Undo and delete-selected remove, and no other
\* handler but Clear touches the list.
C17_EntriesFrozen ==
    [][/\ lastOp' \in {"applySelectionBox", "singleClickSelection"} =>
              FrozenList(drawingAction') = FrozenList(drawingAction)
       /\ lastOp' \in {"endDrawing", "placeAIInstructions"} =>
              /\ Len(drawingAction') >= Len(drawingAction)
              /\ SubSeq(drawingAction', 1, Len(drawingAction)) = drawingAction
       /\ lastOp' = "undoDrawing" =>
              /\ Len(drawingAction') <= Len(drawingAction)
              /\ drawingAction' = SubSeq(drawingAction, 1, Len(drawingAction'))
       /\ lastOp' = "handleDeleteSelected" =>
              drawingAction' = Unselected(drawingAction)
       /\ lastOp' \notin {"applySelectionBox", "singleClickSelection", "endDrawing",
                          "placeAIInstructions", "undoDrawing",
                          "handleDeleteSelected", "clearDrawing"} =>
              drawingAction' = drawingAction]_vars

\* C17 witness: a single click has selected a placed rect and deselected the
\* stroke under it.
C17_Witness ==
    /\ lastOp = "singleClickSelection"
    /\ Len(drawingAction) = 2
    /\ drawingAction[1].type = "freehand"
    /\ ~drawingAction[1].selected
    /\ drawingAction[2].type = "rect"
    /\ drawingAction[2].selected

\* C18: every freehand action of the action list has a path of at least one
\* point.
C18_StrokesHavePoints ==
    \A i \in 1..Len(drawingAction) :
        drawingAction[i].type = "freehand" => Len(drawingAction[i].path) >= 1

\* C18 witness: a pointer-up has run in draw mode with an empty transient
\* path, after a stroke was committed, and has added nothing.
C18_Witness ==
    /\ lastOp = "handleMouseUp"
    /\ mode = "draw"
    /\ lengthBefore = 1
    /\ Len(drawingAction) = 1
    /\ drawingAction[1].type = "freehand"

\* C19: in an idle state (no stroke in progress, no selection drag, no
\* preview pending) with mode draw, a pointer-down starts a path that
\* consists of the pointer position and enters freehand-drawing.
C19_PointerDownStartsStroke ==
    [][(/\ button = "up" /\ button' = "down"
        /\ mode = "draw"
        /\ ~drawing
        /\ ~isSelecting
        /\ IsNull(pendingAIInstructions)) =>
        /\ drawing'
        /\ currentPath' = <<Val(pointer')>>]_vars

\* C20: the pointer-up that follows the pointer-down of a stroke commits the
\* stroke, whatever the mode: it appends one freehand action, not selected,
\* whose path is the transient path, empties the transient path and ends
\* the stroke.
C20_PointerUpCommitsStroke ==
    [][(/\ button = "down" /\ button' = "click"
        /\ drawing
        /\ Len(currentPath) >= 1) =>
        LET n == Len(drawingAction)
        IN  /\ Len(drawingAction') = n + 1
            /\ SubSeq(drawingAction', 1, n) = drawingAction
            /\ drawingAction'[n + 1].type = "freehand"
            /\ drawingAction'[n + 1].path = currentPath
            /\ ~drawingAction'[n + 1].selected
            /\ currentPath' = <<>>
            /\ ~drawing']_vars

\* The number of freehand actions of list.
Strokes(list) == Cardinality({i \in 1..Len(list) : list[i].type = "freehand"})

\* C21: while a preview is pending no freehand action is appended to the
\* action list: a step taken with a pending preview leaves the list with no
\* more freehand actions than it had, also when a stroke was in progress as
\* the generation result arrived.
C21_NoStrokeWhilePending ==
    [][~IsNull(pendingAIInstructions) =>
        Strokes(drawingAction') <= Strokes(drawingAction)]_vars

\* The branches of the handlers that end a pending preview.
EndsPreview == {"placeAIInstructions", "undoDrawing", "clearDrawing"}

\* C22: a pending preview stays as it is across every pointer-down,
\* pointer-move, pointer-up, mode toggle, delete-selected and failed
\* request; only a placing click, Undo or Clear end the pending state, and
\* only a further generation result replaces the preview by another.
C22_PreviewStaysPending ==
    [][~IsNull(pendingAIInstructions) =>
        /\ IsNull(pendingAIInstructions') => lastOp' \in EndsPreview
        /\ lastOp' \notin EndsPreview \cup {"generateDrawingOk"} =>
               pendingAIInstructions' = pendingAIInstructions]_vars

\* C22 witness: a request made while a preview of a rect was pending has
\* failed, and the preview is still pending.
C22_Witness ==
    /\ lastOp = "generateDrawingFail"
    /\ pendingAIInstructions = Some(<<RectInstruction>>)
    /\ ~IsNull(error)

\* The ids of the entries of list.
Ids(list) == {list[i].id : i \in 1..Len(list)}

\* C23: the click that places a pending preview appends one entry per
\* instruction, in the order of the instructions, each of the type and with
\* the fields of its instruction, selected FALSE, the id of the instruction
\* or, if it had none, a fresh id; the entries before stay, and afterwards
\* no preview is pending, the preview is hidden and freehand drawing is
\* enabled.
C23_PlacementCommits ==
    [][lastOp' = "placeAIInstructions" =>
        LET insts == Val(pendingAIInstructions)
            n == Len(drawingAction)
            placed == SubSeq(drawingAction', n + 1, Len(drawingAction'))
            Moved == {"x", "y", "x1", "y1", "x2", "y2", "points", "id", "selected"}
        IN  /\ Len(drawingAction') = n + Len(insts)
            /\ SubSeq(drawingAction', 1, n) = drawingAction
            /\ \A i \in 1..Len(insts) :
                  /\ DOMAIN placed[i] = DOMAIN insts[i] \cup {"id", "selected"}
                  /\ \A f \in DOMAIN insts[i] \ Moved : placed[i][f] = insts[i][f]
                  /\ placed[i].selected = FALSE
                  /\ IF "id" \in DOMAIN insts[i] /\ insts[i].id # ""
                     THEN placed[i].id = insts[i].id
                     ELSE /\ placed[i].id # ""
                          /\ placed[i].id \notin Ids(drawingAction)
                          /\ \A j \in 1..Len(insts) : j # i => placed[j].id # placed[i].id
            /\ pendingAIInstructions' = Null
            /\ previewVisible' = FALSE
            /\ drawingEnabled' = TRUE]_vars

\* C23 witness: the batch of a line, which the service sent as selected, and
\* a polygon without id has been placed: the line is not selected and the
\* polygon has the first random id.
C23_Witness ==
    /\ lastOp = "placeAIInstructions"
    /\ Len(drawingAction) = 2
    /\ drawingAction[1].id = "b"
    /\ ~drawingAction[1].selected
    /\ drawingAction[2].id = randomUUID(1)
    /\ IsNull(pendingAIInstructions)
    /\ ~previewVisible
    /\ drawingEnabled

\* C24: a pointer-move while a preview is pending leaves the stored pending
\* instructions and the action list as they are, and the click that places
\* the preview at p commits the instructions the generation result
\* delivered, moved to p, whatever pointer-moves came in between.
C24_MovesDoNotCompound ==
    [][/\ lastOp' = "movePreview" =>
              /\ pendingAIInstructions' = pendingAIInstructions
              /\ drawingAction' = drawingAction
       /\ lastOp' = "placeAIInstructions" =>
              drawingAction' =
                  drawingAction \o ShiftAll(Val(returned), Val(pointer), uuids)]_vars

\* C24 witness: the preview of a line and a polygon has been moved to (1,1)
\* with the button held at another point before, and is still pending as
\* the generation result delivered it.
C24_Witness ==
    /\ lastOp = "movePreview"
    /\ previewPosition = Some(Point(2, 2))
    /\ button = "down"
    /\ returned = Some(<<LineInstruction, PolygonInstruction>>)
    /\ pendingAIInstructions = returned

\* C25: in idle with mode select, a pointer-down at a point records the
\* point as the start of the drag, enters selecting and sets the selection
\* box to the box of width 0 and height 0 at the point.
C25_PointerDownSetsBox ==
    [][(/\ button = "up" /\ button' = "down"
        /\ mode = "select"
        /\ ~drawing
        /\ ~isSelecting
        /\ IsNull(pendingAIInstructions)) =>
        /\ selectStart' = pointer'
        /\ isSelecting'
        /\ selectionBox' = Some([x |-> Val(pointer').x, y |-> Val(pointer').y,
                                 width |-> 0, height |-> 0])]_vars

\* The branches of the handlers of the four pointer events of the canvas.
PointerOps ==
    {"handleMouseDown", "startDrawing", "startSelecting",
     "handleMouseMove", "movePreview", "moveSelecting", "draw",
     "handleMouseUp", "endDrawing", "applySelectionBox",
     "handleCanvasClick", "placeAIInstructions", "singleClickSelection"}

\* C26: in mode select no pointer event starts a stroke or changes the
\* transient path, and none but the click that places a pending preview
\* changes the length of the action list; in mode draw no pointer event
\* starts a selection drag, changes the selection box or changes the
\* selected flag of an entry of the list.
C26_ModeGatesPointer ==
    [][lastOp' \in PointerOps =>
        /\ mode = "select" =>
              /\ ~drawing => ~drawing'
              /\ currentPath' = currentPath
              /\ lastOp' # "placeAIInstructions" =>
                     Len(drawingAction') = Len(drawingAction)
        /\ mode = "draw" =>
              /\ ~isSelecting => ~isSelecting'
              /\ UNCHANGED SelectVars
              /\ Len(drawingAction') >= Len(drawingAction)
              /\ Flags(SubSeq(drawingAction', 1, Len(drawingAction))) =
                     Flags(drawingAction)]_vars

\* C26 witness: in mode draw a stroke has been committed behind a selected
\* entry, which is still selected.
C26_Witness ==
    /\ lastOp = "endDrawing"
    /\ mode = "draw"
    /\ Len(drawingAction) = 2
    /\ drawingAction[1].selected
    /\ ~drawingAction[2].selected

\* The points a painting call covers: the points of a path, the corners of a
\* rectangle, the anchor of a text or the centre of an arc.
MarkPoints(mark) ==
    IF "points" \in DOMAIN mark
    THEN {mark.points[k] : k \in 1..Len(mark.points)}
    ELSE IF "width" \in DOMAIN mark
    THEN {Point(mark.x, mark.y), Point(mark.x + mark.width, mark.y + mark.height)}
    ELSE {Point(mark.x, mark.y)}

\* Every point of mark lies in the rectangle rect = [x, y, width, height].
MarkInside(mark, rect) ==
    \A pt \in MarkPoints(mark) :
        InRect(pt, Point(rect.x, rect.y),
               Point(rect.x + rect.width, rect.y + rect.height))

\* C27: after a paint of the action list, nothing that an earlier action
\* painted inside the clearRect rectangle of an erase action is on the
\* surface; stated for the erase action that is the last entry of the list,
\* which every other entry is earlier than.
C27_EraseClearsRect ==
    LET n == Len(drawingAction)
    IN  (/\ lastOp = "redraw"
         /\ n >= 1
         /\ drawingAction[n].type = "erase"
         /\ "clearRect" \in DOMAIN drawingAction[n]) =>
            \A k \in 1..Len(context.surface) :
                ~MarkInside(context.surface[k], drawingAction[n].clearRect)

\* C28: an entry without coordinate fields, whose bounding box is
\* {+inf, +inf, -inf, -inf}, is never selected.
C28_DegenerateNeverSelected ==
    \A i \in 1..Len(drawingAction) :
        CoordPoints(drawingAction[i]) = {} => ~drawingAction[i].selected

\* C29: every entry of the action list carries a selected flag that is a
\* boolean, and delete-selected removes the entries whose flag is TRUE and no
\* other.
C29_FlagExplicit ==
    /\ \A i \in 1..Len(drawingAction) :
          /\ "selected" \in DOMAIN drawingAction[i]
          /\ drawingAction[i].selected \in BOOLEAN
    /\ lastOp = "handleDeleteSelected" =>
          \A i \in 1..Len(drawingAction) : ~drawingAction[i].selected

\* C29 witness: delete-selected has run on a list of a stroke and a placed
\* rect, which the service sent without a selected flag, and both are kept.
C29_Witness ==
    /\ lastOp = "handleDeleteSelected"
    /\ lengthBefore = 2
    /\ Len(drawingAction) = 2
    /\ drawingAction[1].type = "freehand"
    /\ drawingAction[2].type = "rect"

\* C30: at most one generation request is in flight, and loading is TRUE
\* exactly while one is.
C30_OneRequestInFlight ==
    /\ inflight \in {0, 1}
    /\ loading <=> inflight = 1

\* C30 witness: a second request is in flight after the first one was
\* answered.
C30_Witness ==
    /\ lastOp = "handleAIDrawing"
    /\ requests = 2
    /\ loading
    /\ inflight = 1

=============================================================================
